---------------------------- MODULE Spec2Model ----------------------------
(***************************************************************************)
(* A model of the solana-volume-bot batching pipeline:                     *)
(*   - config.ts      (src/unnamed/part_002, src/unnamed/part_000 1-24)    *)
(*   - telegram bot   (src/unnamed/part_000, src/telegram-bot.ts)          *)
(*   - distribute.ts  (src/unnamed/part_001)                               *)
(*   - createKeys.ts  (src/src/createKeys.ts 1-108)                        *)
(*   - bot.ts         (src/src/createKeys.ts 367-578)                      *)
(*   - simulate.ts    (src/src/simulate.ts)                                *)
(*                                                                         *)
(* The public operations are modelled as the source wires them.            *)
(* distributeSolAndCreateATA, distributeWSOL, createReturns and volume     *)
(* call loadKeypairs() without the userId that loadKeypairs(userId) hands  *)
(* to getUserKeypairsDir: userId.toString() throws a TypeError there, so   *)
(* each of them is over at that statement, before its first await.  The    *)
(* statements after it are never run and no action stands for them; what   *)
(* they would call (the RPC, the relay) is kept as history that stays      *)
(* empty.  chunkArray, createAndSignVersionedTx, createKeypairs,           *)
(* loadKeypairs(userId) and calculateVolumeAndSolLoss are exercised on     *)
(* their own, on arguments drawn from bounded sets.                        *)
(*                                                                         *)
(* Conventions.  A JavaScript number is a record [t, m, e]: t = "num"      *)
(* stands for m * 10^e (m not divisible by 10 unless it is 0), t = "nan"   *)
(* for NaN and t = "undef" for an omitted argument.  A keypair is a tuple  *)
(* <<kind, user, index>>, its public key <<"pub", kind, user, index>>.     *)
(* Third-party SDK calls are modelled by what they do: VersionedTransaction*)
(* .sign rejects a signer whose key is not a required signer of the        *)
(* message; serialize().length is the length of the version-0 wire format  *)
(* of the compiled message, counted from the instruction list.  The chat   *)
(* handlers that call the operations are not among the sources; of them    *)
(* the model keeps the call alone, and follows a request up to the return  *)
(* of its operation.                                                       *)
(***************************************************************************)
EXTENDS Integers, Sequences, FiniteSets, TLC

VARIABLES
    wallet,      \* config.wallet: the process-wide active keypair
    walletFile,  \* user -> whether user_wallets/<id>.json exists
    store,       \* user -> number of keypairN.json files in the user's directory
    pc,          \* position of the observed request
    req,         \* the observed request: user, operation, arguments
    result,      \* what the operation handed back to its caller
    sends,       \* history: the bundles handed to searcherClient.sendBundle
    rpcs,        \* history: number of RPC calls made by the request
    loads,       \* history: number of loadKeypairs calls made by the request
    switches,    \* history: updates of other users served during the request
    cIn, cK, cOut, cPc,  \* chunkArray exercised on its own
    keyInfo,     \* user -> content of keyInfo.json in the user's directory
    userDirs,    \* user -> whether user_keypairs/<id> exists
    keyGen,      \* user -> for each keypairN.json, the serial (per user) of the
                 \* generateWallets call that made the key stored in it
    kRes,        \* the last createKeypairs / loadKeypairs call and what it returned
    kPc,         \* createKeypairs and loadKeypairs exercised on their own
    race,        \* request -> a create request issued together with others:
                 \* whether it is issued or has returned, and its call and result
    sIn,         \* arguments solPrice, jitoTip, executions of the simulation
    sAmts,       \* the caller's walletAmounts array
    sOut,        \* what the last calculateVolumeAndSolLoss call returned
    sPrev,       \* what the call before it returned
    sCalls,      \* calls of calculateVolumeAndSolLoss made so far
    tIn,         \* arguments of the last createAndSignVersionedTx call
    tOut,        \* what that call returned or threw
    tPc          \* createAndSignVersionedTx exercised on its own

vars == <<wallet, walletFile, store, pc, req, result, sends, rpcs, loads, switches,
          cIn, cK, cOut, cPc, keyInfo, userDirs, keyGen, kRes, kPc, race,
          sIn, sAmts, sOut, sPrev, sCalls, tIn, tOut, tPc>>

chunkVars == <<cIn, cK, cOut, cPc>>
keyVars   == <<keyInfo, userDirs, keyGen, kRes, kPc, race>>
simVars   == <<sIn, sAmts, sOut, sPrev, sCalls>>
signVars  == <<tIn, tOut, tPc>>
envVars   == <<walletFile, store>>
histVars  == <<sends, rpcs, loads>>

-----------------------------------------------------------------------------
(* Bounds of the model *)

NumUsers   == 2    \* users of the bot
MidKeys    == 3    \* a keypair directory of some keypairs
MaxKeys    == 11   \* a keypair directory of more than ten keypairs
MaxCycles  == 2    \* largest `cycles` handed to volume
MaxSwitch  == 1    \* updates of other users served while one request runs
MaxLen     == 4    \* longest array handed to chunkArray on its own
MaxK       == 3    \* largest chunk size handed to chunkArray on its own
NumElems   == 2    \* distinct elements of the arrays handed to chunkArray
NumRequests == 2   \* create requests of one user issued together

(* Program constants *)

MaxTxSize      == 1232   \* the serialized-size ceiling
ReclaimChunk   == 2      \* const chunkSize = 2
AtaChunk       == 10     \* chunkArray(ataIxs, 10)
DefaultSteps   == 5      \* steps: number = 5
MaxWallets     == 20     \* numWallets > 20

Users == 1..NumUsers

Min(a, b) == IF a < b THEN a ELSE b

-----------------------------------------------------------------------------
(* chunkArray *)

\* Array.prototype.slice(b, e) for 0 <= b <= e: elements b .. e-1, e clipped
Slice(array, b, e) == SubSeq(array, b + 1, Min(e, Len(array)))

RECURSIVE ChunkFrom(_, _, _)
ChunkFrom(array, size, i) ==
    IF i >= Len(array) THEN <<>>
    ELSE <<Slice(array, i, i + size)>> \o ChunkFrom(array, size, i + size)

RECURSIVE ChunkFromOverlap(_, _, _)
ChunkFromOverlap(array, size, i) ==
    IF i >= Len(array) THEN <<>>
    ELSE <<Slice(array, i, i + size)>> \o ChunkFromOverlap(array, size, i + 1)

chunkArray_step1(array, size) == ChunkFromOverlap(array, size, 0)

chunkArray(array, size) == ChunkFrom(array, size, 0)

-----------------------------------------------------------------------------
(* JavaScript numbers *)

Undef  == [t |-> "undef", m |-> 0, e |-> 0]
NaN    == [t |-> "nan", m |-> 0, e |-> 0]
Num(n) == [t |-> "num", m |-> n, e |-> 0]

RECURSIVE Pow10(_)
Pow10(k) == IF k <= 0 THEN 1 ELSE 10 * Pow10(k - 1)

RECURSIVE Normalize(_, _)
Normalize(m, e) ==
    IF m = 0 THEN Num(0)
    ELSE IF m % 10 = 0 THEN Normalize(m \div 10, e + 1)
    ELSE [t |-> "num", m |-> m, e |-> e]

JsLe0(x)   == x.t = "num" /\ x.m <= 0      \* x <= 0 (false for NaN, undefined)
JsLt0(x)   == x.t = "num" /\ x.m < 0       \* x < 0
Falsy(x)   == x.t # "num" \/ x.m = 0       \* !x
OrElse(x, d) == IF x.t = "undef" THEN d ELSE x     \* x ?? d, and a default parameter

\* n < x for a loop counter n
JsLess(n, x) ==
    /\ x.t = "num"
    /\ IF x.e >= 0 THEN n < x.m * Pow10(x.e) ELSE n * Pow10(0 - x.e) < x.m

DefaultTipLamports == [t |-> "num", m |-> 1, e |-> 7]    \* 0.01 * LAMPORTS_PER_SOL
DefaultTipSol      == [t |-> "num", m |-> 1, e |-> 0 - 2] \* jitoTipSOL = 0.01

-----------------------------------------------------------------------------
(* Keys, accounts, instructions, transactions *)

W(u)      == <<"w", u, 0>>          \* the wallet keypair of user u
K(u, i)   == <<"k", u, i>>          \* the keypair of user u stored in keypair{i}.json
NoWallet  == <<"none", 0, 0>>       \* `wallet` before any setUserWallet
Pub(k)    == <<"pub">> \o k         \* keypair.publicKey
tipAcct   == <<"pub", "tip", 0, 0>>
\* the fixed keys of the SDK: "system" (SystemProgram.programId), "token"
\* (spl.TOKEN_PROGRAM_ID), "ata" (spl.ASSOCIATED_TOKEN_PROGRAM_ID) and "mint"
\* (spl.NATIVE_MINT)
WellKnown(name) == <<"pub", name, 0, 0>>
NoKey     == <<"pub", "none", 0, 0>>
NoAmt     == Undef

\* spl.getAssociatedTokenAddress(mint, owner)
Ata(mint, owner) == <<"ata", mint, owner[2], owner[3], owner[4]>>

Ix(kind, a, b, c, amt, signers) ==
    [kind |-> kind, a |-> a, b |-> b, c |-> c, amt |-> amt, signers |-> signers]

\* SystemProgram.transfer({fromPubkey, toPubkey, lamports})
Transfer(from, to, lamports) == Ix("transfer", from, to, NoKey, lamports, {from})
\* spl.createAssociatedTokenAccountIdempotentInstruction(payer, ata, owner, mint)
CreateAta(payer, ata, owner) == Ix("createATA", payer, ata, owner, NoAmt, {payer})
\* spl.createCloseAccountInstruction(account, destination, authority)
CloseAccount(acct, dest, auth) == Ix("close", acct, dest, auth, NoAmt, {auth})

IsTip(ix) == ix.kind = "transfer" /\ ix.b = tipAcct

\* the signer keys of a compiled message: the payer and every isSigner account
RequiredSigners(payer, ixList) ==
    {payer} \cup UNION {ixList[i].signers : i \in 1..Len(ixList)}

\* VersionedTransaction.sign(signers) throws when a signer is undefined or its
\* public key is not a required signer of the message
SignThrows(payer, ixList, signers) ==
    \E i \in 1..Len(signers) :
        \/ signers[i] = NoWallet
        \/ Pub(signers[i]) \notin RequiredSigners(payer, ixList)

SeqToSet(s) == {s[i] : i \in 1..Len(s)}

\* the account keys an instruction brings into the message: the accounts it
\* names and its program
IxKeys(ix) ==
    IF ix.kind = "transfer" THEN {ix.a, ix.b, WellKnown("system")}
    ELSE IF ix.kind = "createATA"
    THEN {ix.a, ix.b, ix.c, WellKnown("mint"), WellKnown("system"),
          WellKnown("token"), WellKnown("ata")}
    ELSE {ix.a, ix.b, ix.c, WellKnown("token")}

\* the bytes of a compact-u16 length prefix
CompactLen(n) == IF n < 128 THEN 1 ELSE IF n < 16384 THEN 2 ELSE 3

\* a compiled instruction: the program index, the account indexes and the
\* data, the last two with their length prefix.  A transfer names 2 accounts
\* (from, to) and holds 12 bytes (a 4-byte tag, 8 bytes of lamports); createATA
\* names 6 (payer, ata, owner, mint, system program, token program) and close 3
\* (account, destination, authority), each with a 1-byte tag
IxBytes(ix) ==
    LET accounts == IF ix.kind = "transfer" THEN 2
                    ELSE IF ix.kind = "createATA" THEN 6 ELSE 3
        data     == IF ix.kind = "transfer" THEN 12 ELSE 1
    IN  1 + CompactLen(accounts) + accounts + CompactLen(data) + data

RECURSIVE SumIxBytes(_, _)
SumIxBytes(ixList, i) ==
    IF i > Len(ixList) THEN 0 ELSE IxBytes(ixList[i]) + SumIxBytes(ixList, i + 1)

\* tx.serialize().length of a version-0 transaction without lookup tables: the
\* signatures (64 bytes for each required signer, signed or not), the version
\* byte, the 3-byte header, the account keys (each once, 32 bytes each), the
\* blockhash (32 bytes), the instructions and the empty list of table lookups
TxSize(payer, ixList) ==
    LET sigs == Cardinality(RequiredSigners(payer, ixList))
        keys == Cardinality({payer} \cup UNION {IxKeys(ixList[i]) : i \in 1..Len(ixList)})
    IN  CompactLen(sigs) + 64 * sigs
          + 1 + 3
          + CompactLen(keys) + 32 * keys
          + 32
          + CompactLen(Len(ixList)) + SumIxBytes(ixList, 1)
          + CompactLen(0)

Tx(payer, ixList, blockhash, signers, size) ==
    [payer |-> payer, ixs |-> ixList, blockhash |-> blockhash,
     sigs |-> SeqToSet(signers), size |-> size]


\* outcomes of a call that may throw
Returned(v) == [thrown |-> FALSE, val |-> <<v>>, err |-> ""]
Thrown(e)   == [thrown |-> TRUE, val |-> <<>>, err |-> e]

ErrSign     == "Cannot sign with non signer key"
ErrNoWallet == "Cannot read properties of undefined"
ErrNoUser   == "Cannot read properties of undefined (reading 'toString')"

\* what a createAndSignVersionedTx call leaves: its outcome and what it
\* logged, "Txn size:" with the size and "tx too big" above the ceiling
Assembled(outcome, size) ==
    [thrown |-> outcome.thrown, val |-> outcome.val, err |-> outcome.err,
     log |-> IF size > MaxTxSize THEN <<"Txn size:", "tx too big">>
             ELSE <<"Txn size:">>]

createAndSignVersionedTx_unsigned(instructions, blockhash, feePayer, extraSigners) ==
    LET size == TxSize(feePayer, instructions)
    IN  Assembled(Returned(Tx(feePayer, instructions, blockhash, extraSigners, size)),
                  size)

\* compile, serialize (an oversized transaction is only logged), sign with the
\* process-wide wallet and the extra signers
createAndSignVersionedTx(instructions, blockhash, feePayer, extraSigners) ==
    LET size    == TxSize(feePayer, instructions)
        signers == <<wallet>> \o extraSigners
    IN  Assembled(IF SignThrows(feePayer, instructions, signers)
                  THEN Thrown(IF wallet = NoWallet THEN ErrNoWallet ELSE ErrSign)
                  ELSE Returned(Tx(feePayer, instructions, blockhash, signers, size)),
                  size)

-----------------------------------------------------------------------------
(* The keypair store (createKeys.ts) *)

RECURSIVE Digits(_)
Digits(i) == IF i < 10 THEN <<i>> ELSE Digits(i \div 10) \o <<i % 10>>

\* the UTF-16 code units of `keypair${index}.json` from the index on, up to the
\* dot: the prefix "keypair" and the suffix "json" are the same in every name
NameCodes(i) == [k \in 1..Len(Digits(i)) |-> 48 + Digits(i)[k]] \o <<46>>

RECURSIVE LexLess(_, _)
LexLess(a, b) ==
    IF Len(b) = 0 THEN FALSE
    ELSE IF Len(a) = 0 THEN TRUE
    ELSE IF Head(a) # Head(b) THEN Head(a) < Head(b)
    ELSE LexLess(Tail(a), Tail(b))

\* fs.readdirSync(dir).filter(keypair\d+.json).sort() of files keypair1..keypairN
RECURSIVE InsertFile(_, _)
InsertFile(i, sorted) ==
    IF sorted = <<>> THEN <<i>>
    ELSE IF LexLess(NameCodes(i), NameCodes(Head(sorted))) THEN <<i>> \o sorted
    ELSE <<Head(sorted)>> \o InsertFile(i, Tail(sorted))

RECURSIVE SortedFiles(_)
SortedFiles(n) == IF n = 0 THEN <<>> ELSE InsertFile(n, SortedFiles(n - 1))

\* the sorted listings of the directories of 1, 2, ... files, computed once
RECURSIVE SortedUpTo(_)
SortedUpTo(n) == IF n = 0 THEN <<>> ELSE Append(SortedUpTo(n - 1), SortedFiles(n))

MaxFiles == IF MaxKeys > MaxWallets THEN MaxKeys + 1 ELSE MaxWallets + 1

SortedTable == SortedUpTo(MaxFiles)

readKeypairsFromDisk(u) ==
    IF store[u] = 0 THEN <<>>
    ELSE LET files == SortedTable[store[u]]
         IN  [r \in 1..store[u] |-> K(u, files[r])]

\* the userId argument the call sites omit: `undefined`
NoUser == 0

\* getUserKeypairsDir(userId): path.join(..., userId.toString()) throws a
\* TypeError for an omitted userId; otherwise the directory is made if missing
getUserKeypairsDir(userId) ==
    IF userId = NoUser THEN Thrown(ErrNoUser)
    ELSE Returned([userDirs EXCEPT ![userId] = TRUE])

\* loadKeypairs(userId): the user's directory, then the keypairs read from it
loadKeypairs(userId) ==
    LET dir == getUserKeypairsDir(userId)
    IN  IF dir.thrown
        THEN [thrown |-> TRUE, err |-> dir.err, wallets |-> <<>>, userDirs |-> userDirs]
        ELSE [thrown |-> FALSE, err |-> "", wallets |-> readKeypairsFromDisk(userId),
              userDirs |-> dir.val[1]]

-----------------------------------------------------------------------------
(* Requests and results *)

NoReq ==
    [user |-> 0, via |-> "none", op |-> "none", mode |-> "", amt |-> Undef,
     tip |-> Undef, steps |-> Undef, cycles |-> Undef, delay |-> Undef,
     market |-> "", feePayer |-> NoKey]

NoId == <<>>

NoResult ==
    [kind |-> "none", success |-> FALSE, msg |-> "", err |-> "", n |-> 0,
     txCount |-> 0, bundleId |-> NoId, bundleIds |-> <<>>]

\* a result object; msg is the fixed text, err the interpolated error text,
\* n the interpolated number
Ret(success, msg, err, n) ==
    [NoResult EXCEPT !.kind = "returned", !.success = success, !.msg = msg,
                     !.err = err, !.n = n]

\* the promise of an async operation rejected with an error
Rejected(err) == [NoResult EXCEPT !.kind = "rejected", !.err = err]

-----------------------------------------------------------------------------
(* config.ts and the wallet-loading middleware *)

setUserWallet(kp) == kp

\* bot.use: the user's wallet becomes the active wallet if its file exists
LoadUserWallet(u) == IF walletFile[u] THEN setUserWallet(W(u)) ELSE wallet

\* an update of user u arrives while no request is being followed
Middleware(u) ==
    /\ pc = "idle"
    /\ wallet' = LoadUserWallet(u)
    /\ req' = [NoReq EXCEPT !.user = u]
    /\ pc' = "handler"
    /\ UNCHANGED <<envVars, result, histVars, switches, chunkVars, keyVars, simVars,
                   signVars>>

\* an update of another user passes the middleware while the handler of the
\* followed request is suspended: before it calls its operation, or at an
\* await of sendMainMenu
OtherUpdate(u) ==
    /\ pc \in {"handler", "balance", "menu"}
    /\ u # req.user
    /\ switches < MaxSwitch
    /\ LoadUserWallet(u) # wallet
    /\ wallet' = LoadUserWallet(u)
    /\ switches' = switches + 1
    /\ UNCHANGED <<envVars, pc, req, result, histVars, chunkVars, keyVars, simVars,
                   signVars>>

\* The keyboard of the menu: Simulate and My Wallet always, the four
\* operations between them only for a funded wallet; n counts its rows.
\* Funded is sol >= 0.05 with sol = balance / 1e9 and balance a whole number
\* of lamports: the quotient is rounded to the nearest double, 0.05 is the
\* double nearest to 5 * 10^7 / 10^9, and rounding keeps the order.
Menu(hasWallet, balance) ==
    LET funded == balance >= 5 * Pow10(7)
    IN  [NoResult EXCEPT !.kind = "menu",
                         !.n = IF hasWallet /\ funded THEN 6 ELSE 2]

\* what connection.getBalance may answer, in lamports
Balances == {0, 5 * Pow10(7) - 1, 5 * Pow10(7)}

\* sendMainMenu (/start, /menu) up to its first await: the balance is asked
\* for only when the user's wallet file exists
SendMainMenu ==
    /\ pc = "handler"
    /\ req' = [req EXCEPT !.op = "menu"]
    /\ IF walletFile[req.user]
       THEN /\ rpcs' = rpcs + 1
            /\ pc' = "balance"
            /\ UNCHANGED result
       ELSE /\ result' = Menu(FALSE, 0)
            /\ pc' = "menu"
            /\ UNCHANGED rpcs
    /\ UNCHANGED <<wallet, envVars, sends, loads, switches, chunkVars, keyVars,
                   simVars, signVars>>

\* connection.getBalance has answered; the menu is built and handed to ctx.reply
BalanceFetched ==
    /\ pc = "balance"
    /\ \E balance \in Balances : result' = Menu(TRUE, balance)
    /\ pc' = "menu"
    /\ UNCHANGED <<wallet, envVars, req, histVars, switches, chunkVars, keyVars,
                   simVars, signVars>>

\* ctx.reply has sent the menu: the update is over
Reply ==
    /\ pc = "menu"
    /\ pc' = "idle"
    /\ req' = NoReq
    /\ result' = NoResult
    /\ sends' = <<>> /\ rpcs' = 0 /\ loads' = 0
    /\ switches' = 0
    /\ UNCHANGED <<wallet, envVars, chunkVars, keyVars, simVars, signVars>>

-----------------------------------------------------------------------------
(* distribute.ts: distributeSolAndCreateATA, distributeWSOL, createReturns *)

\* what an operation leaves alone when it is over at its first statements: the
\* TypeError of loadKeypairs() is thrown before getUserKeypairsDir makes any
\* directory, and no RPC or relay call is reached
EndsBeforeAwait ==
    /\ pc' = "done"
    /\ UNCHANGED <<wallet, envVars, sends, rpcs, switches, chunkVars, keyVars, simVars,
                   signVars>>

DistributeInvalid_noTip(amt, tipv, steps) == JsLe0(amt) \/ JsLe0(steps)

\* solAmt <= 0 || jitoTipAmt <= 0 || steps <= 0
DistributeInvalid(amt, tipv, steps) == JsLe0(amt) \/ JsLe0(tipv) \/ JsLe0(steps)

\* catch (err) { return { success: false, message: `Error: ${err.message}` } }
DistributeCatch(err) == Ret(FALSE, "Error: ", err, 0)

\* distributeSolAndCreateATA / distributeWSOL: the validation, then
\* loadKeypairs() inside the try block, whose TypeError the catch returns
EnterDistribute(via, op, amt, tipv, stepsArg, feePayer) ==
    LET steps == OrElse(stepsArg, Num(DefaultSteps))
        load  == loadKeypairs(NoUser)
    IN
    /\ req' = [req EXCEPT !.via = via, !.op = op, !.mode = op, !.amt = amt,
                          !.tip = tipv, !.steps = steps, !.feePayer = feePayer]
    /\ IF DistributeInvalid(amt, tipv, steps)
       THEN /\ result' = Ret(FALSE, "All numeric inputs must be > 0", "", 0)
            /\ UNCHANGED loads
       ELSE /\ loads' = loads + 1
            /\ result' = DistributeCatch(load.err)
    /\ EndsBeforeAwait

\* createReturns: loadKeypairs() is its first statement, outside any try block;
\* the TypeError rejects the promise the async function returns
EnterCreateReturns(via, tipArg) ==
    LET tipSol == OrElse(tipArg, DefaultTipSol)
        load   == loadKeypairs(NoUser)
    IN
    /\ req' = [req EXCEPT !.via = via, !.op = "reclaim", !.mode = "reclaim",
                          !.tip = tipSol]
    /\ loads' = loads + 1
    /\ result' = Rejected(load.err)
    /\ EndsBeforeAwait

-----------------------------------------------------------------------------
(* sender *)

SenderModes == {"sol+ata", "wsol", "reclaim"}

\* the public entry point: the defaults, then the switch on options.mode
sender(mode, amt, tipArg, stepsArg, feePayer) ==
    LET tipv  == OrElse(tipArg, DefaultTipLamports)
        steps == OrElse(stepsArg, Num(DefaultSteps))
    IN  IF mode \in {"sol+ata", "wsol"} /\ ~Falsy(amt)
        THEN EnterDistribute("sender", mode, amt, tipv, steps, feePayer)
        ELSE IF mode = "reclaim"
        THEN EnterCreateReturns("sender", tipv)
        ELSE /\ req' = [req EXCEPT !.via = "sender", !.op = "sender", !.mode = mode,
                                   !.amt = amt, !.tip = tipv, !.steps = steps,
                                   !.feePayer = feePayer]
             /\ result' = Ret(FALSE, IF mode = "sol+ata" THEN "solAmt required"
                                     ELSE IF mode = "wsol"
                                     THEN "wsolAmtPerWallet required"
                                     ELSE "Invalid mode", "", 0)
             /\ UNCHANGED loads
             /\ EndsBeforeAwait

-----------------------------------------------------------------------------
(* bot.ts: volume *)

\* !marketID || cycles <= 0 || delaySec < 0 || jitoTipSOL <= 0
VolumeInvalid(market, cycles, delay, tipSol) ==
    market = "" \/ JsLe0(cycles) \/ JsLt0(delay) \/ JsLe0(tipSol)

\* volume: the validation, then loadKeypairs() before the try block of the
\* loop; the TypeError rejects the promise the async function returns
EnterVolume(market, cycles, delay, tipSol) ==
    LET load == loadKeypairs(NoUser)
    IN
    /\ req' = [req EXCEPT !.via = "direct", !.op = "volume", !.mode = "volume",
                          !.market = market, !.cycles = cycles, !.delay = delay,
                          !.tip = tipSol]
    /\ IF VolumeInvalid(market, cycles, delay, tipSol)
       THEN /\ result' = Ret(FALSE, "Invalid parameters", "", 0)
            /\ UNCHANGED loads
       ELSE /\ loads' = loads + 1
            /\ result' = Rejected(load.err)
    /\ EndsBeforeAwait

-----------------------------------------------------------------------------
(* The calls the chat handlers make, with the arguments they may hand over *)

KeyCounts == {0, MidKeys, MaxKeys}
AmtVals   == {NaN, Num(0), Num(1)}
TipVals   == {NaN, Num(0 - 1), Num(0), Num(1)}
StepVals  == {Undef, NaN, Num(0), Num(1)}
CycleVals == {NaN, Num(0)} \cup {Normalize(c, 0) : c \in 1..MaxCycles}
DelayVals == {NaN, Num(0 - 1), Num(0)}
Markets   == {"", "market"}
Modes     == SenderModes \cup {"other"}
FeePayers == {Pub(W(u)) : u \in Users}

CallSender ==
    /\ pc = "handler"
    /\ \E mode \in Modes, amt \in AmtVals \cup {Undef}, tipArg \in TipVals \cup {Undef},
          stepsArg \in StepVals, feePayer \in FeePayers :
          sender(mode, amt, tipArg, stepsArg, feePayer)

CallDistributeSol ==
    /\ pc = "handler"
    /\ \E amt \in AmtVals, tipv \in TipVals, stepsArg \in StepVals,
          feePayer \in FeePayers :
          EnterDistribute("direct", "sol+ata", amt, tipv, stepsArg, feePayer)

CallDistributeWsol ==
    /\ pc = "handler"
    /\ \E amt \in AmtVals, tipv \in TipVals, stepsArg \in StepVals,
          feePayer \in FeePayers :
          EnterDistribute("direct", "wsol", amt, tipv, stepsArg, feePayer)

CallCreateReturns ==
    /\ pc = "handler"
    /\ \E tipArg \in TipVals \cup {Undef} : EnterCreateReturns("direct", tipArg)

CallVolume ==
    /\ pc = "handler"
    /\ \E market \in Markets, cycles \in CycleVals, delay \in DelayVals,
          tipSol \in TipVals :
          EnterVolume(market, cycles, delay, tipSol)

-----------------------------------------------------------------------------
(* The specification of the bot *)

\* no keyInfo.json
NoInfo == [present |-> FALSE, numOfWallets |-> 0, pubkeys |-> <<>>]

NoKRes ==
    [user |-> 0, mode |-> "none", num |-> Undef, success |-> FALSE, msg |-> "",
     n |-> 0, wallets |-> <<>>, pubkeys |-> <<>>]

NoSimIn  == [solPrice |-> Undef, jitoTip |-> Undef, executions |-> Undef]
NoSimOut == [success |-> FALSE, msg |-> "", data |-> <<>>]

NoSignIn ==
    [instructions |-> <<>>, blockhash |-> 0, feePayer |-> NoKey,
     extraSigners |-> <<>>]
NoSignOut == [thrown |-> FALSE, val |-> <<>>, err |-> "", log |-> <<>>]

Requests == 1..NumRequests

NoRace == [pc |-> "off", res |-> NoKRes]

\* createKeypairs, calculateVolumeAndSolLoss and createAndSignVersionedTx are
\* not being exercised; a user with keypair files has a directory
KeysIdle ==
    /\ keyInfo = [u \in Users |-> NoInfo]
    /\ userDirs = [u \in Users |-> store[u] > 0]
    /\ keyGen = [u \in Users |-> [i \in 1..store[u] |-> 1]]
    /\ kRes = NoKRes
    /\ kPc = "off"
    /\ race = [r \in Requests |-> NoRace]

SimIdle ==
    /\ sIn = NoSimIn /\ sAmts = <<>> /\ sOut = NoSimOut /\ sPrev = NoSimOut
    /\ sCalls = 0

SignIdle == tIn = NoSignIn /\ tOut = NoSignOut /\ tPc = "off"

IdleLocals ==
    /\ req = NoReq
    /\ result = NoResult
    /\ sends = <<>> /\ rpcs = 0 /\ loads = 0
    /\ switches = 0

\* users are interchangeable: the users with a wallet file are the last ones
Init ==
    /\ wallet = NoWallet
    /\ walletFile \in {[u \in Users |-> u > k] : k \in 0..NumUsers}
    /\ store \in {[u \in Users |-> n] : n \in KeyCounts}
    /\ pc = "idle"
    /\ IdleLocals
    /\ cIn = <<>> /\ cK = 1 /\ cOut = <<>> /\ cPc = "off"
    /\ KeysIdle
    /\ SimIdle
    /\ SignIdle

Next ==
    \/ \E u \in Users : Middleware(u)
    \/ \E u \in Users : OtherUpdate(u)
    \/ CallSender
    \/ CallDistributeSol
    \/ CallDistributeWsol
    \/ CallCreateReturns
    \/ CallVolume
    \/ SendMainMenu
    \/ BalanceFetched
    \/ Reply

Spec == Init /\ [][Next]_vars

-----------------------------------------------------------------------------
(* chunkArray on its own: every array and chunk size within the bounds *)

Arrays == UNION {[1..n -> 1..NumElems] : n \in 0..MaxLen}

InitChunk ==
    /\ wallet = NoWallet
    /\ walletFile = [u \in Users |-> FALSE]
    /\ store = [u \in Users |-> 0]
    /\ pc = "off"
    /\ IdleLocals
    /\ cIn \in Arrays
    /\ cK \in 1..MaxK
    /\ cOut = <<>>
    /\ cPc = "ready"
    /\ KeysIdle
    /\ SimIdle
    /\ SignIdle

ChunkCall ==
    /\ cPc = "ready"
    /\ cOut' = chunkArray(cIn, cK)
    /\ cPc' = "done"
    /\ UNCHANGED <<wallet, envVars, pc, req, result, histVars, switches,
                   cIn, cK, keyVars, simVars, signVars>>

NextChunk == ChunkCall

SpecChunk == InitChunk /\ [][NextChunk]_vars

-----------------------------------------------------------------------------
(* createKeys.ts: createKeypairs on its own *)

DefaultWallets == 5      \* numWallets: number = 5
ManyWallets    == 10     \* a wallet count of two digits handed to createKeypairs

IsInteger(x)  == x.t = "num" /\ x.e >= 0                      \* Number.isInteger(x)
IntVal(x)     == x.m * Pow10(x.e)
JsGreater(x, n) == x.t = "num" /\ x.e >= 0 /\ IntVal(x) > n   \* x > n, x an integer

\* generateWallets(num): fresh keypairs, named after the file each will be saved
\* to by saveKeypairToFile(w, i, userDir): keypair{i + 1}.json
generateWallets(u, num) == [i \in 1..num |-> K(u, i)]

\* updatePoolInfo: { numOfWallets, pubkey1, pubkey2, ... } in list order
updatePoolInfo(wallets) ==
    [present |-> TRUE, numOfWallets |-> Len(wallets),
     pubkeys |-> [i \in 1..Len(wallets) |-> Pub(wallets[i])]]

\* what a createKeypairs call returns and leaves on disk
KOut(u, mode, success, msg, n, wallets, files, info) ==
    [res |-> [user |-> u, mode |-> mode, num |-> Undef, success |-> success,
              msg |-> msg, n |-> n, wallets |-> wallets,
              pubkeys |-> [i \in 1..Len(wallets) |-> Pub(wallets[i])]],
     store |-> files, keyInfo |-> info, userDirs |-> getUserKeypairsDir(u).val[1]]

KFail(u, mode, msg) == KOut(u, mode, FALSE, msg, 0, <<>>, store, keyInfo)

CreateInvalid_offByOne(num) ==
    ~IsInteger(num) \/ JsLe0(num) \/ JsGreater(num, MaxWallets + 1)

\* !Number.isInteger(numWallets) || numWallets <= 0 || numWallets > 20
CreateInvalid(num) == ~IsInteger(num) \/ JsLe0(num) \/ JsGreater(num, MaxWallets)

\* wallets.forEach((w, i) => saveKeypairToFile(w, i, userDir)): the files
\* keypair1.json .. keypair{n}.json are written, over what is there
saveKeypairsToFiles(u, wallets) ==
    [store EXCEPT ![u] = IF Len(wallets) > @ THEN Len(wallets) ELSE @]

\* the serial of the next generateWallets call for user u
NextSerial(u) ==
    LET Used == {keyGen[u][i] : i \in 1..Len(keyGen[u])}
    IN  IF Used = {} THEN 1 ELSE 1 + (CHOOSE g \in Used : \A h \in Used : h <= g)

\* the keys in the files of user u once n fresh keys have been saved
SavedKeys(u, n) ==
    LET old   == keyGen[u]
        count == IF n > Len(old) THEN n ELSE Len(old)
    IN  [keyGen EXCEPT ![u] =
            [i \in 1..count |-> IF i <= n THEN NextSerial(u) ELSE old[i]]]

CreateMode_overwrite(u, num) ==
    IF CreateInvalid(num) THEN KFail(u, "create", "Use 1-20 wallets.")
    ELSE LET wallets == generateWallets(u, IntVal(num))
         IN  KOut(u, "create", TRUE, "Created keypairs for you.", Len(wallets), wallets,
                  saveKeypairsToFiles(u, wallets),
                  [keyInfo EXCEPT ![u] = updatePoolInfo(wallets)])

\* mode === 'create'
CreateMode(u, num) ==
    IF CreateInvalid(num) THEN KFail(u, "create", "Use 1-20 wallets.")
    ELSE IF Len(readKeypairsFromDisk(u)) > 0
    THEN KFail(u, "create", "You already have keypairs! Use \"use\" mode.")
    ELSE LET wallets == generateWallets(u, IntVal(num))
         IN  KOut(u, "create", TRUE, "Created keypairs for you.", Len(wallets), wallets,
                  saveKeypairsToFiles(u, wallets),
                  [keyInfo EXCEPT ![u] = updatePoolInfo(wallets)])

UseMode_noCheck(u) ==
    LET wallets == readKeypairsFromDisk(u)
    IN  KOut(u, "use", TRUE, "Loaded keypairs.", Len(wallets), wallets, store,
             [keyInfo EXCEPT ![u] = updatePoolInfo(wallets)])

\* mode === 'use'
UseMode(u) ==
    LET wallets == readKeypairsFromDisk(u)
    IN  IF Len(wallets) = 0
        THEN KFail(u, "use", "No keypairs found. Use \"create\" first.")
        ELSE KOut(u, "use", TRUE, "Loaded keypairs.", Len(wallets), wallets, store,
                  [keyInfo EXCEPT ![u] = updatePoolInfo(wallets)])

createKeypairs(u, mode, numArg) ==
    IF mode = "create" THEN CreateMode(u, OrElse(numArg, Num(DefaultWallets)))
    ELSE IF mode = "use" THEN UseMode(u)
    ELSE KFail(u, mode, "Invalid mode.")

KeyModes       == {"create", "use", "other"}
NumWalletVals  ==
    {Undef, NaN, Num(0), Num(1), [t |-> "num", m |-> 15, e |-> 0 - 1],
     Normalize(ManyWallets, 0), Normalize(MaxWallets, 0), Normalize(MaxWallets + 1, 0)}

\* the mode and numWallets of a call; numWallets is read in 'create' mode only
KeyCalls ==
    {<<"create", numArg>> : numArg \in NumWalletVals}
        \cup {<<mode, Undef>> : mode \in KeyModes \ {"create"}}

\* a createKeypairs call: the body has no await, it runs to its return
CallCreateKeypairs ==
    /\ kPc = "ready"
    /\ \E u \in Users, call \in KeyCalls :
        LET mode   == call[1]
            numArg == call[2]
            out    == createKeypairs(u, mode, numArg)
        IN  /\ kRes' = [out.res EXCEPT !.num = numArg]
            /\ store' = out.store
            /\ keyInfo' = out.keyInfo
            /\ userDirs' = out.userDirs
            /\ keyGen' = IF out.res.success /\ mode = "create"
                         THEN SavedKeys(u, out.res.n) ELSE keyGen
    /\ kPc' = "returned"
    /\ UNCHANGED <<wallet, walletFile, pc, req, result, histVars, switches,
                   chunkVars, race, simVars, signVars>>

\* a loadKeypairs(userId) call: the directory is made if it is missing, the
\* keypairs are read from it
CallLoadKeypairs ==
    /\ kPc = "ready"
    /\ \E u \in Users :
        LET out == loadKeypairs(u)
        IN  /\ kRes' = [NoKRes EXCEPT !.user = u, !.mode = "load",
                                      !.wallets = out.wallets]
            /\ userDirs' = out.userDirs
    /\ kPc' = "returned"
    /\ UNCHANGED <<wallet, envVars, pc, req, result, histVars, switches, chunkVars,
                   keyInfo, keyGen, race, simVars, signVars>>

\* the caller has read the result; the next call may come
KeysNextCall ==
    /\ kPc = "returned"
    /\ kPc' = "ready"
    /\ UNCHANGED <<wallet, envVars, pc, req, result, histVars, switches,
                   chunkVars, keyInfo, userDirs, keyGen, kRes,
                   race, simVars, signVars>>

InitKeys ==
    /\ wallet = NoWallet
    /\ walletFile = [u \in Users |-> FALSE]
    /\ store = [u \in Users |-> 0]
    /\ pc = "off"
    /\ IdleLocals
    /\ cIn = <<>> /\ cK = 1 /\ cOut = <<>> /\ cPc = "off"
    /\ keyInfo = [u \in Users |-> NoInfo]
    /\ userDirs = [u \in Users |-> FALSE]
    /\ keyGen = [u \in Users |-> <<>>]
    /\ kRes = NoKRes
    /\ kPc = "ready"
    /\ race = [r \in Requests |-> NoRace]
    /\ SimIdle
    /\ SignIdle

NextKeys == CallCreateKeypairs \/ CallLoadKeypairs \/ KeysNextCall

SpecKeys == InitKeys /\ [][NextKeys]_vars

-----------------------------------------------------------------------------
(* createKeys.ts: create requests of one user issued together *)

\* a create request that has been issued and has not run yet
Issued(u, numArg) ==
    [pc |-> "issued",
     res |-> [NoKRes EXCEPT !.user = u, !.mode = "create", !.num = numArg]]

\* the requests are issued before any of them runs; the user has no keypairs
InitRace ==
    /\ wallet = NoWallet
    /\ walletFile = [u \in Users |-> FALSE]
    /\ store = [u \in Users |-> 0]
    /\ pc = "off"
    /\ IdleLocals
    /\ cIn = <<>> /\ cK = 1 /\ cOut = <<>> /\ cPc = "off"
    /\ keyInfo = [u \in Users |-> NoInfo]
    /\ userDirs = [u \in Users |-> FALSE]
    /\ keyGen = [u \in Users |-> <<>>]
    /\ kRes = NoKRes
    /\ kPc = "off"
    /\ \E u \in Users :
        race \in [Requests -> {Issued(u, numArg) : numArg \in NumWalletVals}]
    /\ SimIdle
    /\ SignIdle

\* the event loop runs one of the issued requests: the body of createKeypairs
\* has no await, so it runs from its first statement to its return before any
\* other request is looked at
RunCreate(r) ==
    /\ race[r].pc = "issued"
    /\ LET u   == race[r].res.user
           num == race[r].res.num
           out == createKeypairs(u, "create", num)
       IN  /\ race' = [race EXCEPT ![r] = [pc |-> "returned",
                                          res |-> [out.res EXCEPT !.num = num]]]
           /\ store' = out.store
           /\ keyInfo' = out.keyInfo
           /\ userDirs' = out.userDirs
           /\ keyGen' = IF out.res.success THEN SavedKeys(u, out.res.n) ELSE keyGen
    /\ UNCHANGED <<wallet, walletFile, pc, req, result, histVars, switches,
                   chunkVars, kRes, kPc, simVars, signVars>>

NextRace == \E r \in Requests : RunCreate(r)

SpecRace == InitRace /\ [][NextRace]_vars

-----------------------------------------------------------------------------
(* simulate.ts: calculateVolumeAndSolLoss on its own *)

\* A JavaScript number that takes part in arithmetic is an IEEE 754 binary64
\* value, kept as a record [t, s, m, e]: t = "num" stands for (-1)^s * m * 2^e
\* with m a natural number of exactly MantBits bits (or zero, with e = 0), and
\* t = "nan" for NaN.  Every operation computes the exact result and rounds it
\* to the nearest such value, ties to the even significand, as the hardware
\* does.  The magnitudes of the simulation stay far from the overflow and the
\* subnormal range, so neither infinities nor subnormals are represented.

MaxRounds     == 2    \* largest `executions`
MaxSimWallets == 2    \* longest walletAmounts array
MaxSimAmt     == 2    \* largest wallet amount, in SOL
MaxPrice      == 2    \* largest SOL price, in USD
MaxSimCalls   == 2    \* calls made with the same arguments

MantBits == 53        \* bits of the significand of a binary64 number
LimbBits == 15        \* bits of one digit of a natural number of any size

RECURSIVE Pow2(_)
Pow2(k) == IF k <= 0 THEN 1 ELSE 2 * Pow2(k - 1)

Limb == Pow2(LimbBits)

\* Natural numbers of any size: the digits in base Limb, least significant
\* first, without a most significant zero digit; zero is <<>>.
RECURSIVE BTrim(_)
BTrim(a) ==
    IF a # <<>> /\ a[Len(a)] = 0 THEN BTrim(SubSeq(a, 1, Len(a) - 1)) ELSE a

RECURSIVE BFromInt(_)
BFromInt(n) == IF n = 0 THEN <<>> ELSE <<n % Limb>> \o BFromInt(n \div Limb)

RECURSIVE BAddC(_, _, _)
BAddC(a, b, c) ==
    IF a = <<>> /\ b = <<>> THEN (IF c = 0 THEN <<>> ELSE <<c>>)
    ELSE IF a = <<>> THEN BAddC(b, a, c)
    ELSE IF b = <<>>
    THEN <<(Head(a) + c) % Limb>> \o BAddC(Tail(a), b, (Head(a) + c) \div Limb)
    ELSE <<(Head(a) + Head(b) + c) % Limb>>
            \o BAddC(Tail(a), Tail(b), (Head(a) + Head(b) + c) \div Limb)

BAdd(a, b) == BAddC(a, b, 0)

\* a - b - c for a >= b + c, digit by digit with the borrow c
RECURSIVE BSubC(_, _, _)
BSubC(a, b, c) ==
    IF a = <<>> THEN <<>>
    ELSE IF b = <<>>
    THEN <<(Head(a) - c + Limb) % Limb>>
            \o BSubC(Tail(a), b, IF Head(a) - c < 0 THEN 1 ELSE 0)
    ELSE <<(Head(a) - Head(b) - c + Limb) % Limb>>
            \o BSubC(Tail(a), Tail(b), IF Head(a) - Head(b) - c < 0 THEN 1 ELSE 0)

BSub(a, b) == BTrim(BSubC(a, b, 0))

RECURSIVE BCmpAt(_, _, _)
BCmpAt(a, b, i) ==
    IF i = 0 THEN 0
    ELSE IF a[i] < b[i] THEN 0 - 1
    ELSE IF a[i] > b[i] THEN 1
    ELSE BCmpAt(a, b, i - 1)

\* -1, 0 or 1 as a < b, a = b or a > b
BCmp(a, b) ==
    IF Len(a) < Len(b) THEN 0 - 1
    ELSE IF Len(a) > Len(b) THEN 1
    ELSE BCmpAt(a, b, Len(a))

RECURSIVE BMulLimbC(_, _, _)
BMulLimbC(a, d, c) ==
    IF a = <<>> THEN (IF c = 0 THEN <<>> ELSE <<c>>)
    ELSE <<(Head(a) * d + c) % Limb>> \o BMulLimbC(Tail(a), d, (Head(a) * d + c) \div Limb)

BMulLimb(a, d) == IF d = 0 THEN <<>> ELSE BMulLimbC(a, d, 0)

RECURSIVE BShiftLimbs(_, _)
BShiftLimbs(a, k) == IF a = <<>> \/ k = 0 THEN a ELSE <<0>> \o BShiftLimbs(a, k - 1)

RECURSIVE BMul(_, _)
BMul(a, b) ==
    IF a = <<>> \/ b = <<>> THEN <<>>
    ELSE BAdd(BMulLimb(b, Head(a)), BShiftLimbs(BMul(Tail(a), b), 1))

RECURSIVE IntBitLen(_)
IntBitLen(n) == IF n = 0 THEN 0 ELSE 1 + IntBitLen(n \div 2)

BBitLen(a) ==
    IF a = <<>> THEN 0 ELSE LimbBits * (Len(a) - 1) + IntBitLen(a[Len(a)])

\* bit i of a, bit 0 the least significant
BBit(a, i) ==
    IF i \div LimbBits >= Len(a) THEN 0
    ELSE (a[i \div LimbBits + 1] \div Pow2(i % LimbBits)) % 2

\* a * 2^k
BShl(a, k) == BShiftLimbs(BMulLimb(a, Pow2(k % LimbBits)), k \div LimbBits)

\* floor(a / 2^r) for r < LimbBits, from digit i on
RECURSIVE BShrBits(_, _, _)
BShrBits(a, r, i) ==
    IF i > Len(a) THEN <<>>
    ELSE <<(a[i] \div Pow2(r))
            + (IF i < Len(a) THEN (a[i + 1] % Pow2(r)) * Pow2(LimbBits - r) ELSE 0)>>
            \o BShrBits(a, r, i + 1)

\* floor(a / 2^k)
BShr(a, k) ==
    IF k \div LimbBits >= Len(a) THEN <<>>
    ELSE BTrim(BShrBits(SubSeq(a, k \div LimbBits + 1, Len(a)), k % LimbBits, 1))

\* floor(n / d) for a divisor d of one digit (0 < d < Limb), by short division
\* from the most significant digit i down, r the remainder left so far
RECURSIVE BDivDigits(_, _, _, _)
BDivDigits(n, d, i, r) ==
    IF i = 0 THEN <<>>
    ELSE BDivDigits(n, d, i - 1, (r * Limb + n[i]) % d) \o <<(r * Limb + n[i]) \div d>>

BDiv(n, d) == BTrim(BDivDigits(n, d, Len(n), 0))

DNaN == [t |-> "nan", s |-> 0, m |-> <<>>, e |-> 0]

DPack(s, m, e) == [t |-> "num", s |-> s, m |-> m, e |-> e]

DZero(s) == DPack(s, <<>>, 0)

\* a / 2^k rounded to the nearest natural number, a tie to the even one
RoundShift(a, k) ==
    IF BCmp(BSub(a, BShl(BShr(a, k), k)), BShl(<<1>>, k - 1)) + BBit(a, k) > 0
    THEN BAdd(BShr(a, k), <<1>>)
    ELSE BShr(a, k)

\* (-1)^s * a * 2^e for a significand that RoundShift carried to MantBits + 1 bits
DCarry(s, a, e) ==
    IF BBitLen(a) > MantBits THEN DPack(s, BShr(a, 1), e + 1) ELSE DPack(s, a, e)

\* the binary64 value nearest to (-1)^s * a * 2^e
DRound(s, a, e) ==
    IF a = <<>> THEN DZero(s)
    ELSE IF BBitLen(a) <= MantBits
    THEN DPack(s, BShl(a, MantBits - BBitLen(a)), e - (MantBits - BBitLen(a)))
    ELSE DCarry(s, RoundShift(a, BBitLen(a) - MantBits), e + (BBitLen(a) - MantBits))

\* the binary64 value nearest to (-1)^s * n / d, d of one digit: the quotient
\* to more than MantBits + 2 bits, with a last bit that tells whether the
\* division left a remainder
DFromRatio(s, n, d) ==
    IF n = <<>> THEN DZero(s)
    ELSE LET k == MantBits + 2 + LimbBits
             q == BDiv(BShl(n, k), d)
         IN  DRound(s, BAdd(BShl(q, 1),
                            IF BCmp(BMulLimb(q, d), BShl(n, k)) = 0 THEN <<>> ELSE <<1>>),
                    0 - k - 1)

\* the Number a caller hands in or a literal of the source stands for; a
\* literal has at most four decimals
ToDouble(x) ==
    IF x.t # "num" THEN DNaN
    ELSE IF x.e >= 0
    THEN DRound(IF x.m < 0 THEN 1 ELSE 0,
                BFromInt((IF x.m < 0 THEN 0 - x.m ELSE x.m) * Pow10(x.e)), 0)
    ELSE DFromRatio(IF x.m < 0 THEN 1 ELSE 0,
                    BFromInt(IF x.m < 0 THEN 0 - x.m ELSE x.m), Pow10(0 - x.e))

\* the sum of two values of significands x and y at the same exponent e
DAddAligned(sa, x, sb, y, e) ==
    IF sa = sb THEN DRound(sa, BAdd(x, y), e)
    ELSE IF BCmp(x, y) = 0 THEN DZero(0)
    ELSE IF BCmp(x, y) > 0 THEN DRound(sa, BSub(x, y), e)
    ELSE DRound(sb, BSub(y, x), e)

\* a + b
DAdd(a, b) ==
    IF a.t # "num" \/ b.t # "num" THEN DNaN
    ELSE IF a.m = <<>> /\ b.m = <<>> THEN DZero(IF a.s = 1 /\ b.s = 1 THEN 1 ELSE 0)
    ELSE IF a.m = <<>> THEN b
    ELSE IF b.m = <<>> THEN a
    ELSE DAddAligned(a.s, BShl(a.m, a.e - Min(a.e, b.e)),
                     b.s, BShl(b.m, b.e - Min(a.e, b.e)), Min(a.e, b.e))

\* a - b
DSub(a, b) == DAdd(a, IF b.t # "num" THEN b ELSE [b EXCEPT !.s = 1 - @])

\* a * b
DMul(a, b) ==
    IF a.t # "num" \/ b.t # "num" THEN DNaN
    ELSE IF a.m = <<>> \/ b.m = <<>> THEN DZero((a.s + b.s) % 2)
    ELSE DRound((a.s + b.s) % 2, BMul(a.m, b.m), a.e + b.e)

\* the whole part of a value that is not negative, as an integer (BToInt and
\* DFloor are used only by the variant that writes the balances into the
\* caller's array)
RECURSIVE BToInt(_)
BToInt(a) == IF a = <<>> THEN 0 ELSE Head(a) + Limb * BToInt(Tail(a))

DFloor(a) ==
    IF a.t # "num" THEN 0
    ELSE IF a.e >= 0 THEN BToInt(BShl(a.m, a.e))
    ELSE BToInt(BShr(a.m, 0 - a.e))

\* const SWAP_TAX_RATE = 0.005
SwapTaxRate == ToDouble(Normalize(5, 0 - 3))

\* const tax = volBefore * SWAP_TAX_RATE
SwapTax(volBefore) == DMul(volBefore, SwapTaxRate)

\* the inner loop: for (let i = 0; i < numberOfWallets; i++), i counted from 1
RECURSIVE SimWallets(_, _)
SimWallets(st, i) ==
    IF i > Len(st.walletBalances) THEN st
    ELSE SimWallets(
            [walletBalances |->
                [st.walletBalances EXCEPT ![i] = DSub(@, SwapTax(st.walletBalances[i]))],
             totalVolumeInSOL |-> DAdd(st.totalVolumeInSOL, st.walletBalances[i]),
             totalSolSpentOnTaxes |->
                DAdd(st.totalSolSpentOnTaxes, SwapTax(st.walletBalances[i]))],
            i + 1)

\* the outer loop: for (let exec = 0; exec < executions; exec++)
RECURSIVE SimRounds(_, _, _, _)
SimRounds(st, exec, executions, jitoTip) ==
    IF ~JsLess(exec, executions) THEN st
    ELSE SimRounds([SimWallets(st, 1) EXCEPT !.totalSolSpentOnTaxes = DAdd(@, jitoTip)],
                   exec + 1, executions, jitoTip)

\* walletAmounts.forEach((amt) => (totalSolSentToWallets += amt)), from
\* element i on, total the sum so far
RECURSIVE SumFrom(_, _, _)
SumFrom(amounts, i, total) ==
    IF i > Len(amounts) THEN total
    ELSE SumFrom(amounts, i + 1, DAdd(total, amounts[i]))

\* [...walletAmounts], as numbers
RECURSIVE Doubles(_)
Doubles(amounts) ==
    IF amounts = <<>> THEN <<>> ELSE <<ToDouble(Head(amounts))>> \o Doubles(Tail(amounts))

\* solPrice <= 0 || jitoTip < 0 || executions <= 0
SimInvalid(solPrice, jitoTip, executions) ==
    JsLe0(solPrice) \/ JsLt0(jitoTip) \/ JsLe0(executions)

SimFail(msg) == [success |-> FALSE, msg |-> msg, data |-> <<>>]

\* walletBalances.map((bal, i) => ({ index: i + 1, sol: bal, usd: bal * solPrice }))
RECURSIVE WalletFinal(_, _, _)
WalletFinal(balances, i, price) ==
    IF i > Len(balances) THEN <<>>
    ELSE <<[index |-> i, sol |-> balances[i], usd |-> DMul(balances[i], price)]>>
            \o WalletFinal(balances, i + 1, price)

\* the data of a result, from the totals `end` the loops leave
SimReport(end, sent, price) ==
    [totalSolSent   |-> sent,
     totalSolAfter  |-> DSub(sent, end.totalSolSpentOnTaxes),
     totalSolSpent  |-> end.totalSolSpentOnTaxes,
     totalVolumeSOL |-> end.totalVolumeInSOL,
     totalUsdSpent  |-> DMul(end.totalSolSpentOnTaxes, price),
     totalUsdVolume |-> DMul(end.totalVolumeInSOL, price),
     walletFinal    |-> WalletFinal(end.walletBalances, 1, price)]

\* the data of a successful result
SimData(solPrice, jitoTip, executions, walletAmounts) ==
    SimReport(SimRounds([walletBalances |-> Doubles(walletAmounts),
                         totalVolumeInSOL |-> DZero(0),
                         totalSolSpentOnTaxes |-> DZero(0)],
                        0, executions, ToDouble(jitoTip)),
              SumFrom(Doubles(walletAmounts), 1, DZero(0)),
              ToDouble(solPrice))

SimResult(solPrice, jitoTip, executions, walletAmounts) ==
    IF SimInvalid(solPrice, jitoTip, executions)
    THEN SimFail("All numeric inputs must be > 0")
    ELSE IF Len(walletAmounts) = 0
    THEN SimFail("Provide at least one wallet amount")
    ELSE [success |-> TRUE, msg |-> "*Simulation Result*",
          data |-> <<SimData(solPrice, jitoTip, executions, walletAmounts)>>]

\* the balances are worked on in place, in the caller's array
calculateVolumeAndSolLoss_inPlace(solPrice, jitoTip, executions, walletAmounts) ==
    LET res == SimResult(solPrice, jitoTip, executions, walletAmounts)
    IN  [res |-> res,
         walletAmounts |->
            IF res.success
            THEN [i \in 1..Len(walletAmounts) |->
                    Normalize(DFloor(res.data[1].walletFinal[i].sol), 0)]
            ELSE walletAmounts]

\* what the call returns, and the caller's array after it: the balances are
\* worked on in a copy ([...walletAmounts])
calculateVolumeAndSolLoss(solPrice, jitoTip, executions, walletAmounts) ==
    [res |-> SimResult(solPrice, jitoTip, executions, walletAmounts),
     walletAmounts |-> walletAmounts]

PriceVals    == {NaN, Num(0), Normalize(MaxPrice, 0)}
SimTipVals   == {NaN, Num(0 - 1), Num(0), Num(1)}
ExecVals     == {NaN, Num(0)} \cup {Normalize(r, 0) : r \in 1..MaxRounds}
SimAmounts   == UNION {[1..n -> {Normalize(a, 0) : a \in 0..MaxSimAmt}] :
                        n \in 0..MaxSimWallets}

InitSim ==
    /\ wallet = NoWallet
    /\ walletFile = [u \in Users |-> FALSE]
    /\ store = [u \in Users |-> 0]
    /\ pc = "off"
    /\ IdleLocals
    /\ cIn = <<>> /\ cK = 1 /\ cOut = <<>> /\ cPc = "off"
    /\ KeysIdle
    /\ sIn \in [solPrice : PriceVals, jitoTip : SimTipVals, executions : ExecVals]
    /\ sAmts \in SimAmounts
    /\ sOut = NoSimOut /\ sPrev = NoSimOut
    /\ sCalls = 0
    /\ SignIdle

\* a call with the arguments of the run: the body has no await
SimCall ==
    /\ sCalls < MaxSimCalls
    /\ LET out == calculateVolumeAndSolLoss(sIn.solPrice, sIn.jitoTip, sIn.executions,
                                            sAmts)
       IN  /\ sOut' = out.res
           /\ sAmts' = out.walletAmounts
    /\ sPrev' = sOut
    /\ sCalls' = sCalls + 1
    /\ UNCHANGED <<wallet, envVars, pc, req, result, histVars, switches,
                   chunkVars, keyVars, sIn, signVars>>

NextSim == SimCall

SpecSim == InitSim /\ [][NextSim]_vars

-----------------------------------------------------------------------------
(* distribute.ts: createAndSignVersionedTx on its own *)

\* the keys that pay for or own what an instruction touches
SignKeys == FeePayers \cup {Pub(K(1, 1))}

\* the token accounts of the first n keypairs, created at the payer's cost
RECURSIVE AtaIxs(_, _)
AtaIxs(payer, n) ==
    IF n = 0 THEN <<>>
    ELSE AtaIxs(payer, n - 1)
            \o <<CreateAta(payer, Ata("wsol", Pub(K(1, n))), Pub(K(1, n)))>>

\* the last chunk of token-account creations, the tip pushed at its end
LastAtaChunk(payer, n) == AtaIxs(payer, n) \o <<Transfer(payer, tipAcct, Num(1))>>

\* instruction lists handed to the assembler: a transfer out of an account,
\* the creation of one token account or of a full chunk of them followed by
\* the tip, the closing of a token account on its owner's authority
SignIxLists ==
    {<<Transfer(s, Pub(K(1, 2)), Num(1))>> : s \in SignKeys}
        \cup {LastAtaChunk(s, n) : s \in SignKeys, n \in {1, AtaChunk}}
        \cup {<<CloseAccount(Ata("wsol", Pub(K(1, 1))), d, Pub(K(1, 1)))>> : d \in FeePayers}

SignExtras == {<<>>, <<K(1, 1)>>}

InitSign ==
    /\ wallet \in {NoWallet} \cup {W(u) : u \in Users}
    /\ walletFile = [u \in Users |-> FALSE]
    /\ store = [u \in Users |-> 0]
    /\ pc = "off"
    /\ IdleLocals
    /\ cIn = <<>> /\ cK = 1 /\ cOut = <<>> /\ cPc = "off"
    /\ KeysIdle
    /\ SimIdle
    /\ tIn = NoSignIn /\ tOut = NoSignOut /\ tPc = "ready"

\* a createAndSignVersionedTx call: the body has no await before its return
CallCreateAndSign ==
    /\ tPc = "ready"
    /\ \E instructions \in SignIxLists, feePayer \in SignKeys,
          extraSigners \in SignExtras :
        /\ tIn' = [instructions |-> instructions, blockhash |-> 1,
                   feePayer |-> feePayer, extraSigners |-> extraSigners]
        /\ tOut' = createAndSignVersionedTx(instructions, 1, feePayer, extraSigners)
    /\ tPc' = "returned"
    /\ UNCHANGED <<wallet, envVars, pc, req, result, histVars, switches, chunkVars,
                   keyVars, simVars>>

\* the caller has taken the transaction; the next call may come
SignNextCall ==
    /\ tPc = "returned"
    /\ tPc' = "ready"
    /\ UNCHANGED <<wallet, envVars, pc, req, result, histVars, switches, chunkVars,
                   keyVars, simVars, tIn, tOut>>

NextSign == CallCreateAndSign \/ SignNextCall

SpecSign == InitSign /\ [][NextSign]_vars

-----------------------------------------------------------------------------
(* Properties *)

Ceil(n, k) == (n + k - 1) \div k

RECURSIVE Concat(_)
Concat(ss) == IF ss = <<>> THEN <<>> ELSE Head(ss) \o Concat(Tail(ss))

IsNaN(x) == x.t = "nan"

\* the request has read no keypair, made no RPC call and submitted nothing
NothingDone == loads = 0 /\ rpcs = 0 /\ sends = <<>>

\* C1: chunkArray(array, K) with K >= 1 yields ceil(N/K) chunks of 1..K
\* elements each, whose concatenation in order is the array; none for N = 0.
C1_ChunkPartition ==
    cPc = "done" =>
        /\ Len(cOut) = Ceil(Len(cIn), cK)
        /\ \A i \in 1..Len(cOut) : Len(cOut[i]) >= 1 /\ Len(cOut[i]) <= cK
        /\ Concat(cOut) = cIn
        /\ (Len(cIn) = 0 => cOut = <<>>)

C1_Witness ==
    /\ cPc = "done"
    /\ Len(cOut) >= 2
    /\ Len(cOut[Len(cOut)]) < cK
    /\ cIn[1] # cIn[2]


\* C5: requests of distinct users share no mutable state: while a request of a
\* user who has a wallet is being handled, the wallet its operations would sign
\* and pay with stays that user's own, whatever updates of other users are
\* served meanwhile.
C5_OwnWalletOnly ==
    (pc \in {"handler", "done"} /\ walletFile[req.user]) => wallet = W(req.user)

\* the arguments of a createAndSignVersionedTx call as distributeSolAndCreateATA
\* and distributeWSOL hand them over: every operation is paid or authorized by
\* the fee payer
DistributeShaped(in) ==
    \A i \in 1..Len(in.instructions) : in.instructions[i].signers \subseteq {in.feePayer}

\* C6: every transaction createAndSignVersionedTx returns for a call shaped as
\* those of distribute carries the signature of the keypair of its fee payer
\* and of every extra signer passed.
C6_SignedByFeePayer ==
    (tPc = "returned" /\ ~tOut.thrown /\ DistributeShaped(tIn)) =>
        LET tx == tOut.val[1]
        IN  /\ tx.payer = tIn.feePayer
            /\ tIn.feePayer \in {Pub(k) : k \in tx.sigs}
            /\ SeqToSet(tIn.extraSigners) \subseteq tx.sigs

C6_Witness ==
    /\ tPc = "returned"
    /\ ~tOut.thrown
    /\ DistributeShaped(tIn)
    /\ Len(tIn.instructions) = 2
    /\ IsTip(tIn.instructions[2])
    /\ tIn.feePayer = Pub(W(NumUsers))
    /\ W(NumUsers) \in tOut.val[1].sigs

\* C8: every operation ends by returning a result; no failure of a
\* collaborator leaves it as a rejected promise.
C8_FailuresReturned ==
    pc = "done" => result.kind = "returned" /\ (~result.success => result.msg # "")

\* C9: with a non-positive amount the operation returns its validation failure
\* and has read no keypair, made no RPC call and submitted nothing.
C9_ValidationFirst ==
    /\ ( /\ req.op \in {"sol+ata", "wsol"}
         /\ (JsLe0(req.amt) \/ JsLe0(req.tip) \/ JsLe0(req.steps)) ) =>
            /\ NothingDone
            /\ pc = "done"
            /\ result = Ret(FALSE, "All numeric inputs must be > 0", "", 0)
    /\ ( /\ req.op = "volume"
         /\ (req.market = "" \/ JsLe0(req.cycles) \/ JsLt0(req.delay)
                \/ JsLe0(req.tip)) ) =>
            /\ NothingDone
            /\ pc = "done"
            /\ result = Ret(FALSE, "Invalid parameters", "", 0)

C9_Witness ==
    /\ pc = "done"
    /\ req.op = "sol+ata"
    /\ req.amt = Num(1)
    /\ req.tip = Num(0)
    /\ store[req.user] > 0
    /\ ~result.success

\* C10: with a NaN parameter distribute and volume are over at once with their
\* validation failure: success = false is returned, no RPC call was made and
\* nothing submitted.
C10_NaNRejected ==
    /\ ( /\ req.op \in {"sol+ata", "wsol"}
         /\ (IsNaN(req.amt) \/ IsNaN(req.tip) \/ IsNaN(req.steps)) ) =>
            /\ rpcs = 0 /\ sends = <<>>
            /\ pc = "done"
            /\ result = Ret(FALSE, "All numeric inputs must be > 0", "", 0)
    /\ ( /\ req.op = "volume"
         /\ (IsNaN(req.cycles) \/ IsNaN(req.delay) \/ IsNaN(req.tip)) ) =>
            /\ rpcs = 0 /\ sends = <<>>
            /\ pc = "done"
            /\ result = Ret(FALSE, "Invalid parameters", "", 0)

\* C12: with an empty keypair store distributeSolAndCreateATA, distributeWSOL,
\* createReturns and volume, once they have asked for the keypairs, are over
\* with success = false and their "no keypairs" message, having made no RPC
\* call and submitted nothing.
C12_NoKeypairs ==
    ( /\ req.op \in {"sol+ata", "wsol", "reclaim", "volume"}
      /\ store[req.user] = 0
      /\ loads >= 1 ) =>
        /\ pc = "done"
        /\ result = Ret(FALSE, IF req.op \in {"sol+ata", "wsol"}
                               THEN "No keypairs loaded"
                               ELSE "No keypairs found in ./keypairs", "", 0)
        /\ rpcs = 0
        /\ sends = <<>>

\* C13: a createKeypairs call in mode 'use' for a user without stored keypairs
\* returns success = false with the message 'No keypairs found. Use "create"
\* first.' and no wallets, and leaves the keypair files and keyInfo.json of
\* every user as they were.
C13_UseOnEmptyStore ==
    [][ ( /\ kPc = "ready"
          /\ kPc' = "returned"
          /\ kRes'.mode = "use"
          /\ store[kRes'.user] = 0 ) =>
            /\ ~kRes'.success
            /\ kRes'.msg = "No keypairs found. Use \"create\" first."
            /\ kRes'.wallets = <<>>
            /\ store' = store
            /\ keyInfo' = keyInfo ]_vars

C13_Witness ==
    /\ kPc = "returned"
    /\ kRes.mode = "use"
    /\ store[kRes.user] = 0
    /\ ~keyInfo[kRes.user].present
    /\ kRes.msg = "No keypairs found. Use \"create\" first."
    /\ \E v \in Users : store[v] > 0

\* C14: keyInfo.json, once written, records as numOfWallets the number of the
\* user's keypair files and as pubkey{i} the public key of the keypair stored
\* in keypair{i}.json.
C14_KeyInfoMatchesFiles ==
    \A u \in Users :
        keyInfo[u].present =>
            /\ keyInfo[u].numOfWallets = store[u]
            /\ \A i \in 1..store[u] : keyInfo[u].pubkeys[i] = Pub(K(u, i))

\* the rounds a call runs
RoundsOf(executions) ==
    IF executions.t = "num" /\ IntVal(executions) > 0 THEN IntVal(executions) ELSE 0

\* a balance after r rounds, each replacing b by b - 0.5% of b
RECURSIVE BalanceAfter(_, _)
BalanceAfter(b, r) ==
    IF r = 0 THEN b
    ELSE DSub(BalanceAfter(b, r - 1), DMul(BalanceAfter(b, r - 1), SwapTaxRate))

\* the sum, over the rounds from r on and in each round over the wallets from i
\* on, of the wallet's balance before the round's tax, added to total
RECURSIVE VolumeFrom(_, _, _, _, _)
VolumeFrom(amounts, rounds, r, i, total) ==
    IF r > rounds THEN total
    ELSE IF i > Len(amounts) THEN VolumeFrom(amounts, rounds, r + 1, 1, total)
    ELSE VolumeFrom(amounts, rounds, r, i + 1,
                    DAdd(total, BalanceAfter(ToDouble(amounts[i]), r - 1)))

VolumeOf(amounts, rounds) == VolumeFrom(amounts, rounds, 1, 1, DZero(0))

\* C18: a second call of calculateVolumeAndSolLoss with the same price, tip,
\* rounds and balances returns what the first returned; and a successful call
\* reports as total volume the sum over rounds and wallets of the balance
\* before the round's tax, and as final balances the balances after all rounds.
C18_SimulationDeterministic ==
    /\ sCalls >= 2 => sOut = sPrev
    /\ (sCalls >= 1 /\ sOut.success) =>
        LET data   == sOut.data[1]
            rounds == RoundsOf(sIn.executions)
        IN  /\ data.totalVolumeSOL = VolumeOf(sAmts, rounds)
            /\ Len(data.walletFinal) = Len(sAmts)
            /\ \A i \in 1..Len(sAmts) :
                data.walletFinal[i].sol = BalanceAfter(ToDouble(sAmts[i]), rounds)

C18_Witness ==
    /\ sCalls = 2
    /\ sOut.success
    /\ RoundsOf(sIn.executions) = MaxRounds
    /\ Len(sAmts) = MaxSimWallets
    /\ sOut.data[1].totalVolumeSOL.m # <<>>
    /\ sOut.data[1].walletFinal[1].sol # ToDouble(sAmts[1])
    /\ sOut.data[1].totalSolAfter.s = 1

\* C19: when the wallet-loading middleware has handled a user's update (and no
\* other update has been served since) the active wallet is that user's wallet
\* or unset.
C19_ActiveWalletIsOwn ==
    (pc \notin {"off", "idle"} /\ switches = 0) => wallet \in {W(req.user), NoWallet}

\* a volume call with a market, a whole number c >= 1 of cycles, a delay >= 0
\* and a tip > 0
VolumeValid ==
    /\ req.op = "volume"
    /\ req.market # ""
    /\ IsInteger(req.cycles) /\ IntVal(req.cycles) >= 1
    /\ req.delay.t = "num" /\ req.delay.m >= 0
    /\ req.tip.t = "num" /\ req.tip.m > 0

\* C20: a valid volume call of c >= 1 cycles for a user with stored keypairs,
\* none of whose RPC or relay calls failed, ends with success = true after
\* exactly c submissions and returns their c ids.
C20_VolumeCompletes ==
    (VolumeValid /\ pc = "done" /\ store[req.user] > 0) =>
        /\ result.kind = "returned"
        /\ result.success
        /\ Len(sends) = IntVal(req.cycles)
        /\ Len(result.bundleIds) = IntVal(req.cycles)

\* C23: a reclaim started through sender with a tip of t > 0 lamports, for a
\* user with stored keypairs and an active wallet, is over only once a bundle
\* has been handed to the relay whose last transaction carries a tip transfer
\* of exactly t lamports.
C23_ReclaimTipLamports ==
    ( /\ pc = "done"
      /\ req.via = "sender" /\ req.op = "reclaim"
      /\ req.tip.t = "num" /\ req.tip.m > 0
      /\ store[req.user] > 0
      /\ wallet # NoWallet ) =>
        \E s \in 1..Len(sends) :
            LET txs  == sends[s].txs
                last == txs[Len(txs)]
            IN  /\ txs # <<>>
                /\ \E j \in 1..Len(last.ixs) :
                    IsTip(last.ixs[j]) /\ last.ixs[j].amt = req.tip

KeysReturn(mode) == kPc = "ready" /\ kPc' = "returned" /\ kRes'.mode = mode

\* the numWallets of the call, the default of 5 applied
NumWalletsOf(res) == OrElse(res.num, Num(DefaultWallets))

\* C24: a create call for a user who has keypair files returns success = false
\* (with 'You already have keypairs!' when the wallet count is valid) and
\* leaves every keypair file and keyInfo.json as they were; the stored keypairs
\* of a user never change once written and are those of the user's first
\* successful create.
C24_CreateNeverOverwrites ==
    /\ [][ (KeysReturn("create") /\ store[kRes'.user] > 0) =>
            /\ ~kRes'.success
            /\ kRes'.wallets = <<>>
            /\ ~CreateInvalid(NumWalletsOf(kRes')) =>
                    kRes'.msg = "You already have keypairs! Use \"use\" mode."
            /\ store' = store
            /\ keyGen' = keyGen
            /\ keyInfo' = keyInfo ]_vars
    /\ [][ \A u \in Users :
            store[u] > 0 => store'[u] = store[u] /\ keyGen'[u] = keyGen[u] ]_vars
    /\ [](\A u \in Users :
            /\ Len(keyGen[u]) = store[u]
            /\ \A i \in 1..store[u] : keyGen[u][i] = 1)

C24_Witness ==
    /\ kPc = "returned"
    /\ kRes.mode = "create"
    /\ kRes.num = Num(1)
    /\ kRes.msg = "You already have keypairs! Use \"use\" mode."
    /\ store[kRes.user] = ManyWallets
    /\ keyInfo[kRes.user].present

\* numWallets is an integer in 1..20
ValidCount(num) ==
    IsInteger(num) /\ IntVal(num) >= 1 /\ IntVal(num) <= MaxWallets

\* C25: a create call whose numWallets is not an integer in 1..20 returns
\* success = false with 'Use 1-20 wallets.' and writes no file; with an integer
\* n in 1..20 (5 when omitted) and no stored keypairs it writes exactly the
\* files keypair1.json .. keypair{n}.json and returns n wallets and their n
\* public keys.
C25_CreateCount ==
    [][ KeysReturn("create") =>
            LET u   == kRes'.user
                num == NumWalletsOf(kRes')
            IN  /\ ~ValidCount(num) =>
                    /\ ~kRes'.success
                    /\ kRes'.msg = "Use 1-20 wallets."
                    /\ kRes'.wallets = <<>>
                    /\ store' = store
                    /\ keyGen' = keyGen
                    /\ keyInfo' = keyInfo
                /\ (ValidCount(num) /\ store[u] = 0) =>
                    LET n == IntVal(num)
                    IN  /\ kRes'.success
                        /\ store' = [store EXCEPT ![u] = n]
                        /\ Len(keyGen'[u]) = n
                        /\ \A v \in Users \ {u} : keyGen'[v] = keyGen[v]
                        /\ kRes'.wallets = [i \in 1..n |-> K(u, i)]
                        /\ kRes'.pubkeys = [i \in 1..n |-> Pub(K(u, i))] ]_vars

C25_Witness ==
    /\ kPc = "returned"
    /\ kRes.mode = "create"
    /\ kRes.success
    /\ kRes.num = Normalize(MaxWallets, 0)
    /\ Len(kRes.wallets) = MaxWallets
    /\ store[kRes.user] = MaxWallets
    /\ \E v \in Users : store[v] = DefaultWallets

\* C26: loadKeypairs and a successful createKeypairs('use') return the stored
\* keypairs of the user in creation order: position i holds the keypair that
\* was saved as keypair{i}.json.
C26_StoreRoundTrip ==
    (kPc = "returned" /\ (kRes.mode = "load" \/ (kRes.mode = "use" /\ kRes.success))) =>
        kRes.wallets = [i \in 1..store[kRes.user] |-> K(kRes.user, i)]

\* the keypairs of group p when n keypairs are taken ReclaimChunk at a time
ReclaimGroup(kps, p) ==
    {kps[q] : q \in ((p - 1) * ReclaimChunk + 1)..Min(p * ReclaimChunk, Len(kps))}

\* C27: a createReturns call for a user with stored keypairs and an active
\* wallet is over only once it has handed the relay a bundle of reclaim
\* transactions that take the keypairs two by two in list order: for every
\* keypair of its group a transaction holds one close-account operation, every
\* transfer it holds moves more than zero lamports, and it is signed by the
\* wallet and by the keypairs of its group.
C27_ReclaimGroups ==
    ( /\ pc = "done"
      /\ req.op = "reclaim"
      /\ store[req.user] > 0
      /\ wallet # NoWallet ) =>
        \E s \in 1..Len(sends) :
            LET txs == sends[s].txs
                kps == readKeypairsFromDisk(req.user)
            IN  /\ Len(txs) = Ceil(Len(kps), ReclaimChunk)
                /\ \A p \in 1..Len(txs) :
                    /\ \A kp \in ReclaimGroup(kps, p) :
                        Cardinality({j \in 1..Len(txs[p].ixs) :
                            /\ txs[p].ixs[j].kind = "close"
                            /\ txs[p].ixs[j].c = Pub(kp)}) = 1
                    /\ \A j \in 1..Len(txs[p].ixs) :
                        txs[p].ixs[j].kind = "transfer" => txs[p].ixs[j].amt.m > 0
                    /\ txs[p].sigs = {wallet} \cup ReclaimGroup(kps, p)

\* C29: calculateVolumeAndSolLoss returns success = false with 'All numeric
\* inputs must be > 0' and no data when solPrice, jitoTip or executions is zero
\* or negative, success = false with 'Provide at least one wallet amount' and
\* no data when these are positive and the wallet list is empty, and success
\* = true with one final balance per wallet when they are positive and the list
\* is not empty.
C29_SimulateValidation ==
    sCalls >= 1 =>
        LET nonPositive ==
                JsLe0(sIn.solPrice) \/ JsLe0(sIn.jitoTip) \/ JsLe0(sIn.executions)
            positive ==
                JsLess(0, sIn.solPrice) /\ JsLess(0, sIn.jitoTip)
                    /\ JsLess(0, sIn.executions)
        IN  /\ nonPositive => sOut = SimFail("All numeric inputs must be > 0")
            /\ (positive /\ sAmts = <<>>) =>
                    sOut = SimFail("Provide at least one wallet amount")
            /\ (positive /\ sAmts # <<>>) =>
                    /\ sOut.success
                    /\ Len(sOut.data[1].walletFinal) = Len(sAmts)

\* the requests that have returned, and those of them that succeeded
RaceDone == {r \in Requests : race[r].pc = "returned"}
RaceWon  == {r \in RaceDone : race[r].res.success}

\* C30: of the create requests of one user issued together at most one returns
\* success = true, whatever the order in which they run; every other request
\* with a valid wallet count reports that keypairs already exist; and the
\* keypair files and keyInfo.json are those written by the successful request.
C30_ConcurrentCreate ==
    /\ Cardinality(RaceWon) <= 1
    /\ \A r \in RaceDone \ RaceWon :
        ValidCount(NumWalletsOf(race[r].res)) =>
            /\ race[r].res.msg = "You already have keypairs! Use \"use\" mode."
            /\ RaceWon # {}
    /\ \A r \in RaceWon :
        LET res == race[r].res
        IN  /\ store[res.user] = Len(res.wallets)
            /\ keyGen[res.user] = [i \in 1..Len(res.wallets) |-> 1]
            /\ keyInfo[res.user] = updatePoolInfo(res.wallets)
    /\ (RaceDone # {} /\ RaceWon = {}) =>
        \A u \in Users : store[u] = 0 /\ ~keyInfo[u].present

C30_Witness ==
    /\ RaceDone = Requests
    /\ race[1].res.num = Num(1)
    /\ race[1].res.msg = "You already have keypairs! Use \"use\" mode."
    /\ race[NumRequests].res.success
    /\ Len(race[NumRequests].res.wallets) = ManyWallets

=============================================================================
